---------------------------- MODULE Spec2Model ----------------------------
(***************************************************************************)
(* A model of redis_emulator.py: the RESP frame decoder (parse), the reply *)
(* encoder (resp), the command dispatcher (cmd_handler) working on the     *)
(* process-wide table (storage) under the global asyncio lock, and the     *)
(* per-connection read loop (handle).                                      *)
(*                                                                         *)
(* Bytes are integers 0..255 and byte strings are sequences of them.  The  *)
(* table is a Python dict, which enumerates in insertion order: it is a    *)
(* sequence of <<key, value>> pairs with pairwise distinct keys.           *)
(***************************************************************************)
EXTENDS Integers, Sequences, FiniteSets, TLC

(***************************************************************************)
(* Bounds of the model.                                                    *)
(***************************************************************************)
\* connections open at once (specification Spec)
NumConns == 2
\* frames the clients send in all, over all connections (specification Spec)
MaxFrames == 3
\* frames the clients send in all, over all connections (specification SpecFail)
MaxFailFrames == 2
\* frames the client sends on the one connection of specification SpecCmd
MaxCmds == 3
\* items the client sends on the one connection of specification SpecFrag
MaxFragFrames == 2
\* keys the client stores before it scans (specification SpecScan)
MaxScanKeys == 5
\* frames that write the table before the last frame (specification SpecTable)
MaxStores == 3
\* largest COUNT the client of specification SpecScan asks for
MaxScanCount == 3
\* keys the client stores before it iterates (specification SpecIter)
MaxIterKeys == 3
\* SCAN calls the client makes in one iteration (specification SpecIter)
MaxIterCalls == 3

(***************************************************************************)
(* Bytes the protocol gives a meaning to.                                  *)
(***************************************************************************)
STAR == 42
DOLLAR == 36
CR == 13
LF == 10
COLON == 58
MINUS == 45
PLUS == 43
DIGIT0 == 48
NumReadBytes == 1024

CRLF == <<CR, LF>>

\* ASCII white space, which Python's int() strips from both ends
IsSpace(b) == b \in {9, 10, 11, 12, 13, 32}
IsDigit(b) == b \in DIGIT0 .. (DIGIT0 + 9)

Min(a, b) == IF a < b THEN a ELSE b
Max(a, b) == IF a > b THEN a ELSE b

(***************************************************************************)
(* Python's sequence operations on bytes, with 0-based positions.          *)
(***************************************************************************)
\* a slice bound as Python normalises it for a sequence of length n
SliceIndex(i, n) == IF i < 0 THEN Max(i + n, 0) ELSE Min(i, n)

\* s[i:j]
Slice(s, i, j) ==
    LET a == SliceIndex(i, Len(s))
        b == SliceIndex(j, Len(s))
    IN  IF a >= b THEN <<>> ELSE SubSeq(s, a + 1, b)

\* s[i:]
SliceFrom(s, i) == Slice(s, i, Len(s))

\* s.find(b"\r\n", start): the least position >= start where CR LF stands, or -1
FindCRLF(s, start) ==
    LET hits == {i \in SliceIndex(start, Len(s)) .. (Len(s) - 2) :
                    s[i + 1] = CR /\ s[i + 2] = LF}
    IN  IF hits = {} THEN -1 ELSE CHOOSE i \in hits : \A j \in hits : i <= j

RECURSIVE DigitsValue(_)
DigitsValue(d) ==
    IF d = <<>> THEN 0
    ELSE 10 * DigitsValue(SubSeq(d, 1, Len(d) - 1)) + (d[Len(d)] - DIGIT0)

RECURSIVE StripLeft(_)
StripLeft(s) ==
    IF s # <<>> /\ IsSpace(s[1]) THEN StripLeft(Tail(s)) ELSE s

RECURSIVE StripRight(_)
StripRight(s) ==
    IF s # <<>> /\ IsSpace(s[Len(s)]) THEN StripRight(SubSeq(s, 1, Len(s) - 1)) ELSE s

\* int(s): surrounding white space is stripped, one sign is allowed, then one
\* digit or more; anything else raises ValueError (ok = FALSE).  The "_"
\* that int() allows between digits is in no input the model draws.
PyInt(s) ==
    LET t == StripRight(StripLeft(s))
        signed == t # <<>> /\ t[1] \in {MINUS, PLUS}
        d == IF signed THEN Tail(t) ELSE t
    IN  IF d # <<>> /\ \A i \in 1 .. Len(d) : IsDigit(d[i])
        THEN [ok |-> TRUE,
              val |-> IF signed /\ t[1] = MINUS THEN 0 - DigitsValue(d) ELSE DigitsValue(d)]
        ELSE [ok |-> FALSE, val |-> 0]

\* str(n).encode(): the decimal digits of n
RECURSIVE DecNat(_)
DecNat(n) ==
    IF n < 10 THEN <<DIGIT0 + n>> ELSE DecNat(n \div 10) \o <<DIGIT0 + (n % 10)>>

Dec(n) == IF n < 0 THEN <<MINUS>> \o DecNat(0 - n) ELSE DecNat(n)

(***************************************************************************)
(* parse: one frame from the head of data.  The result is the arguments    *)
(* and the number of bytes consumed; << >> and 0 on every failure.         *)
(***************************************************************************)
NoFrame == [args |-> <<>>, consumed |-> 0]

\* a position that leaves the value's terminator in the buffer
NextPosAtTerminator(value_end) == value_end

\* pos = value_end + 2: past the value and its two-byte terminator
NextPos(value_end) == value_end + 2

\* the for loop of parse: left elements still to read, pos the position
RECURSIVE ParseArgs(_, _, _, _)
ParseArgs(data, left, pos, args) ==
    IF left <= 0 THEN [args |-> args, consumed |-> pos]
    ELSE IF pos >= Len(data) \/ data[pos + 1] # DOLLAR THEN NoFrame
    ELSE LET dollar_end == FindCRLF(data, pos)
             length == PyInt(Slice(data, pos + 1, dollar_end))
             value_start == dollar_end + 2
             value_end == value_start + length.val
         IN  IF ~length.ok THEN NoFrame
             ELSE IF value_end + 2 > Len(data) THEN NoFrame
             ELSE ParseArgs(data, left - 1, NextPos(value_end),
                            Append(args, Slice(data, value_start, value_end)))

Parse(data) ==
    IF data = <<>> \/ data[1] # STAR THEN NoFrame
    ELSE LET end == FindCRLF(data, 0)
             count == PyInt(Slice(data, 1, end))
         IN  IF ~count.ok THEN NoFrame
             ELSE ParseArgs(data, count.val, end + 2, <<>>)


(***************************************************************************)
(* resp: the reply encoder.  A Python value is a tagged record: None,      *)
(* bytes, str (held as its encoded bytes), int, or list.                   *)
(***************************************************************************)
PyNone == [t |-> "none"]
PyBytes(b) == [t |-> "bytes", b |-> b]
PyStr(b) == [t |-> "str", b |-> b]
PyIntVal(n) == [t |-> "int", n |-> n]
PyList(items) == [t |-> "list", items |-> items]

ERR == <<45, 69, 82, 82, 13, 10>>
OK == <<43, 79, 75, 13, 10>>
PONG == <<43, 80, 79, 78, 71, 13, 10>>
NULL == <<DOLLAR, MINUS, 49, CR, LF>>
ClusterDisabled ==
    <<45, 69, 82, 82, 32, 84, 104, 105, 115, 32, 105, 110, 115, 116, 97, 110, 99,
      101, 32, 104, 97, 115, 32, 99, 108, 117, 115, 116, 101, 114, 32, 115, 117,
      112, 112, 111, 114, 116, 32, 100, 105, 115, 97, 98, 108, 101, 100, 13, 10>>

\* the bytes branch of resp: $<len>\r\n<data>\r\n
RespBytes(b) == (<<DOLLAR>> \o Dec(Len(b)) \o CRLF) \o b \o CRLF

RECURSIVE Resp(_)
RECURSIVE RespJoin(_)
\* b"".join(resp(i) for i in data)
RespJoin(items) ==
    IF items = <<>> THEN <<>> ELSE Resp(Head(items)) \o RespJoin(Tail(items))

Resp(data) ==
    CASE data.t = "none" -> NULL
      [] data.t = "bytes" -> RespBytes(data.b)
      [] data.t = "str" -> RespBytes(data.b)
      [] data.t = "int" -> (<<COLON>> \o Dec(data.n)) \o CRLF
      [] data.t = "list" -> (<<STAR>> \o Dec(Len(data.items)) \o CRLF) \o RespJoin(data.items)
      [] OTHER -> ERR

(***************************************************************************)
(* storage: dict[bytes, bytes], a sequence of <<key, value>> pairs in      *)
(* insertion order.                                                        *)
(***************************************************************************)
Keys(st) == [i \in 1 .. Len(st) |-> st[i][1]]

HasKey(st, k) == \E i \in 1 .. Len(st) : st[i][1] = k

KeyIndex(st, k) == CHOOSE i \in 1 .. Len(st) : st[i][1] = k

\* storage.get(k): the value, or None
StorageGet(st, k) == IF HasKey(st, k) THEN PyBytes(st[KeyIndex(st, k)][2]) ELSE PyNone

\* a table rebound to the one new pair: every other key is lost
StorageSetRebinds(st, k, v) == <<<<k, v>>>>

\* a pair always added at the end: an older pair of the same key stays in front
StorageSetAppends(st, k, v) == Append(st, <<k, v>>)

\* storage[k] = v: a key already present keeps its place, a new one goes last
StorageSet(st, k, v) ==
    IF HasKey(st, k) THEN [st EXCEPT ![KeyIndex(st, k)] = <<k, v>>]
    ELSE Append(st, <<k, v>>)

\* what storage.pop(k, None) leaves in the table
StorageRemove(st, k) == SelectSeq(st, LAMBDA p : p[1] # k)

\* Python truth of what storage.pop(k, None) returns: None and b"" are false
PopTruthy(st, k) == HasKey(st, k) /\ st[KeyIndex(st, k)][2] # <<>>

(***************************************************************************)
(* Text helpers of cmd_handler.                                            *)
(***************************************************************************)
\* b.decode(errors='ignore') on the bytes the model draws: ASCII is kept, and a
\* byte >= 0x80 that starts no valid UTF-8 sequence (0xFF never does) is dropped
DecodeIgnore(b) == SelectSeq(b, LAMBDA x : x < 128)

\* str.upper() on ASCII
Upper(b) == [i \in 1 .. Len(b) |-> IF b[i] \in 97 .. 122 THEN b[i] - 32 ELSE b[i]]

\* re.compile(p.replace("*", ".*")).match(s) for patterns of literal characters
\* and "*": re.match anchors at the start only, and "." matches no line feed
RECURSIVE PatMatch(_, _)
PatMatch(p, s) ==
    IF p = <<>> THEN TRUE
    ELSE IF p[1] = STAR
         THEN \E i \in 0 .. Len(s) :
                  /\ \A j \in 1 .. i : s[j] # LF
                  /\ PatMatch(Tail(p), SubSeq(s, i + 1, Len(s)))
         ELSE s # <<>> /\ s[1] = p[1] /\ PatMatch(Tail(p), Tail(s))

GET == <<71, 69, 84>>
SET == <<83, 69, 84>>
DEL == <<68, 69, 76>>
EXISTS == <<69, 88, 73, 83, 84, 83>>
STRLEN == <<83, 84, 82, 76, 69, 78>>
SCAN == <<83, 67, 65, 78>>
PING == <<80, 73, 78, 71>>
HELLO == <<72, 69, 76, 76, 79>>
CLUSTER == <<67, 76, 85, 83, 84, 69, 82>>
MATCH == <<77, 65, 84, 67, 72>>
COUNT == <<67, 79, 85, 78, 84>>
DefaultCount == 10

HelloReply ==
    PyList(<<PyStr(<<115, 101, 114, 118, 101, 114>>), PyStr(<<114, 101, 100, 105, 115>>),
             PyStr(<<118, 101, 114, 115, 105, 111, 110>>), PyStr(<<54, 46, 48, 46, 48>>),
             PyStr(<<112, 114, 111, 116, 111>>), PyIntVal(3),
             PyStr(<<105, 100>>), PyIntVal(1),
             PyStr(<<109, 111, 100, 101>>),
             PyStr(<<115, 116, 97, 110, 100, 97, 108, 111, 110, 101>>),
             PyStr(<<114, 111, 108, 101>>), PyStr(<<109, 97, 115, 116, 101, 114>>),
             PyStr(<<109, 111, 100, 117, 108, 101, 115>>), PyList(<<>>)>>)

(***************************************************************************)
(* cmd_handler.  args[i] of the source is Arg(args, i).  The result says   *)
(* whether the call raised, the response returned and the table after it.  *)
(***************************************************************************)
Arg(args, i) == args[i + 1]

Returned(response, st) == [raised |-> FALSE, response |-> response, storage |-> st]
Raised(st) == [raised |-> TRUE, response |-> <<>>, storage |-> st]

\* a GET that takes the key it reads out of the table
CmdGetTakes(st, args) ==
    IF Len(args) > 1
    THEN Returned(Resp(StorageGet(st, Arg(args, 1))), StorageRemove(st, Arg(args, 1)))
    ELSE Returned(ERR, st)

CmdGet(st, args) ==
    IF Len(args) > 1 THEN Returned(Resp(StorageGet(st, Arg(args, 1))), st)
    ELSE Returned(ERR, st)

\* a SET that binds the key before it looks for the value
CmdSetBindsFirst(st, args) ==
    IF Len(args) < 2 THEN Raised(st)
    ELSE IF Len(args) < 3 THEN Raised(StorageSet(st, Arg(args, 1), <<>>))
    ELSE Returned(OK, StorageSet(st, Arg(args, 1), Arg(args, 2)))

\* storage[args[1]] = args[2] evaluates args[2] first: IndexError below 3 arguments
CmdSet(st, args) ==
    IF Len(args) < 3 THEN Raised(st)
    ELSE Returned(OK, StorageSet(st, Arg(args, 1), Arg(args, 2)))

\* for k in args[1:]: count += 1 if storage.pop(k, None) else 0
RECURSIVE DelLoop(_, _, _)
DelLoop(st, ks, count) ==
    IF ks = <<>> THEN [storage |-> st, count |-> count]
    ELSE DelLoop(StorageRemove(st, Head(ks)), Tail(ks),
                 count + (IF PopTruthy(st, Head(ks)) THEN 1 ELSE 0))

CmdDel(st, args) ==
    LET r == DelLoop(st, Tail(args), 0)
    IN  Returned(Resp(PyIntVal(r.count)), r.storage)

\* a count of the distinct keys named that are present
CmdExistsDistinct(st, args) ==
    Returned(Resp(PyIntVal(Cardinality({args[i] : i \in {j \in 2 .. Len(args) : HasKey(st, args[j])}}))), st)

CmdExists(st, args) ==
    Returned(Resp(PyIntVal(Cardinality({i \in 2 .. Len(args) : HasKey(st, args[i])}))), st)

\* a length counted in the characters the value decodes to
CmdStrlenChars(st, args) ==
    IF Len(args) > 1
    THEN Returned(Resp(PyIntVal(IF HasKey(st, Arg(args, 1))
                                THEN Len(DecodeIgnore(st[KeyIndex(st, Arg(args, 1))][2]))
                                ELSE 0)), st)
    ELSE Returned(ERR, st)

CmdStrlen(st, args) ==
    IF Len(args) > 1
    THEN Returned(Resp(PyIntVal(IF HasKey(st, Arg(args, 1))
                                THEN Len(st[KeyIndex(st, Arg(args, 1))][2]) ELSE 0)), st)
    ELSE Returned(ERR, st)

\* the keys of the window that the pattern lets through
ScanFilter(keys, match) ==
    IF match # <<STAR>>
    THEN SelectSeq(keys, LAMBDA k : PatMatch(DecodeIgnore(match), DecodeIgnore(k)))
    ELSE keys

\* new_cursor = 0 if cursor + len(keys) >= len(storage) else cursor + len(keys)
NewCursor(cursor, nkeys, size) ==
    IF cursor + nkeys >= size THEN 0 ELSE cursor + nkeys

CmdScan(st, args) ==
    LET cursor == IF Len(args) > 1 THEN PyInt(DecodeIgnore(Arg(args, 1)))
                  ELSE [ok |-> TRUE, val |-> 0]
        match == IF Len(args) > 3 /\ Upper(DecodeIgnore(Arg(args, 2))) = MATCH
                 THEN Arg(args, 3) ELSE <<STAR>>
        count == IF Len(args) > 5 /\ Upper(DecodeIgnore(Arg(args, 4))) = COUNT
                 THEN PyInt(DecodeIgnore(Arg(args, 5)))
                 ELSE [ok |-> TRUE, val |-> DefaultCount]
    IN  IF ~cursor.ok \/ ~count.ok THEN Raised(st)
        ELSE LET keys == ScanFilter(Slice(Keys(st), cursor.val, cursor.val + count.val), match)
                 new_cursor == NewCursor(cursor.val, Len(keys), Len(st))
             IN  Returned(Resp(PyList(<<PyBytes(Dec(new_cursor)),
                                        PyList([i \in 1 .. Len(keys) |-> PyBytes(keys[i])])>>)),
                          st)

CmdHandler(st, cmd, args) ==
    CASE cmd = GET -> CmdGet(st, args)
      [] cmd = SET -> CmdSet(st, args)
      [] cmd = DEL -> CmdDel(st, args)
      [] cmd = EXISTS -> CmdExists(st, args)
      [] cmd = STRLEN -> CmdStrlen(st, args)
      [] cmd = SCAN -> CmdScan(st, args)
      [] cmd = PING -> Returned(PONG, st)
      [] cmd = HELLO -> Returned(Resp(HelloReply), st)
      [] cmd = CLUSTER -> Returned(ClusterDisabled, st)
      [] OTHER -> Returned(ERR, st)


(***************************************************************************)
(* The state: the table and the lock of the process, and for every         *)
(* connection the locals of its handle task.  inbox is the bytes the       *)
(* client has written and reader.read has not returned yet; sent and       *)
(* replies record what the client sent and what writer.write was given.    *)
(***************************************************************************)
VARIABLES storage, lock, pc, buffer, cmd_args, consumed, inbox, sent, replies

vars == <<storage, lock, pc, buffer, cmd_args, consumed, inbox, sent, replies>>

Conns == 1 .. NumConns

\* the wire form of a command frame: *<count>\r\n then $<len>\r\n<value>\r\n each
RECURSIVE EncodeArgs(_)
EncodeArgs(args) ==
    IF args = <<>> THEN <<>>
    ELSE ((<<DOLLAR>> \o Dec(Len(Head(args))) \o CRLF) \o Head(args) \o CRLF)
         \o EncodeArgs(Tail(args))

Encode(args) == (<<STAR>> \o Dec(Len(args)) \o CRLF) \o EncodeArgs(args)

\* what a client sends: a command frame, or bytes that are no frame
Frame(args) == [wf |-> TRUE, args |-> args, raw |-> Encode(args)]
Garbage(bytes) == [wf |-> FALSE, args |-> <<>>, raw |-> bytes]

Init ==
    /\ storage = <<>>
    /\ lock = FALSE
    /\ pc = [c \in Conns |-> "read"]
    /\ buffer = [c \in Conns |-> <<>>]
    /\ cmd_args = [c \in Conns |-> <<>>]
    /\ consumed = [c \in Conns |-> 0]
    /\ inbox = [c \in Conns |-> <<>>]
    /\ sent = [c \in Conns |-> <<>>]
    /\ replies = [c \in Conns |-> <<>>]

\* the client writes one item to its socket
Send(c, item) ==
    /\ pc[c] # "closed"
    /\ inbox' = [inbox EXCEPT ![c] = @ \o item.raw]
    /\ sent' = [sent EXCEPT ![c] = Append(@, item)]
    /\ UNCHANGED <<storage, lock, pc, buffer, cmd_args, consumed, replies>>

\* data := await reader.read(1024) returns n bytes; buffer += data
Read(c, n) ==
    /\ pc[c] = "read"
    /\ n >= 1
    /\ n <= Len(inbox[c])
    /\ n <= NumReadBytes
    /\ buffer' = [buffer EXCEPT ![c] = @ \o SubSeq(inbox[c], 1, n)]
    /\ inbox' = [inbox EXCEPT ![c] = SubSeq(@, n + 1, Len(@))]
    /\ pc' = [pc EXCEPT ![c] = "parse"]
    /\ UNCHANGED <<storage, lock, cmd_args, consumed, sent, replies>>

\* reader.read returns all the bytes that have arrived, up to its limit
ReadAll(c) == Read(c, Min(Len(inbox[c]), NumReadBytes))

\* reader.read returns any part of the bytes that have arrived
ReadSome(c) == \E n \in 1 .. Len(inbox[c]) : Read(c, n)

\* a lock that never makes a task wait
CanAcquireAlways == TRUE

\* the lock can be taken: asyncio.Lock.acquire returns once it is not locked
CanAcquire == ~lock

\* one turn of "while buffer": parse, then up to the await of the lock, or, for
\* a frame of no arguments, up to the await of writer.drain
ParseStep(c) ==
    /\ pc[c] = "parse"
    /\ IF buffer[c] = <<>>
       THEN /\ pc' = [pc EXCEPT ![c] = "read"]
            /\ UNCHANGED <<buffer, cmd_args, consumed, replies>>
       ELSE LET r == Parse(buffer[c])
            IN  /\ cmd_args' = [cmd_args EXCEPT ![c] = r.args]
                /\ consumed' = [consumed EXCEPT ![c] = r.consumed]
                /\ IF r.consumed = 0
                   THEN /\ pc' = [pc EXCEPT ![c] = "read"]
                        /\ UNCHANGED <<buffer, replies>>
                   ELSE /\ buffer' = [buffer EXCEPT ![c] = SliceFrom(@, r.consumed)]
                        /\ IF r.args = <<>>
                           THEN /\ replies' = [replies EXCEPT ![c] = Append(@, ERR)]
                                /\ pc' = [pc EXCEPT ![c] = "drain"]
                           ELSE /\ pc' = [pc EXCEPT ![c] = "lock"]
                                /\ UNCHANGED replies
    /\ UNCHANGED <<storage, lock, inbox, sent>>

\* async with lock: the task goes on once it holds the lock
Acquire(c) ==
    /\ pc[c] = "lock"
    /\ CanAcquire
    /\ lock' = TRUE
    /\ pc' = [pc EXCEPT ![c] = "crit"]
    /\ UNCHANGED <<storage, buffer, cmd_args, consumed, inbox, sent, replies>>

\* a lock that stays held when the body of "async with" raises
LockOnExitKeptOnRaise(raised) == raised

\* the lock after "async with lock": released, however the body ended
LockOnExit(raised) == FALSE

\* response = cmd_handler(cmd, cmd_args) under the lock, the lock released on
\* the way out, then writer.write(response); an exception ends the loop, is
\* logged, and the writer is closed
Dispatch(c) ==
    /\ pc[c] = "crit"
    /\ LET cmd == Upper(DecodeIgnore(Arg(cmd_args[c], 0)))
           r == CmdHandler(storage, cmd, cmd_args[c])
       IN  /\ storage' = r.storage
           /\ lock' = LockOnExit(r.raised)
           /\ IF r.raised
              THEN /\ pc' = [pc EXCEPT ![c] = "closed"]
                   /\ UNCHANGED replies
              ELSE /\ replies' = [replies EXCEPT ![c] = Append(@, r.response)]
                   /\ pc' = [pc EXCEPT ![c] = "drain"]
    /\ UNCHANGED <<buffer, cmd_args, consumed, inbox, sent>>

\* await writer.drain() returns and the inner loop goes round
Drain(c) ==
    /\ pc[c] = "drain"
    /\ pc' = [pc EXCEPT ![c] = "parse"]
    /\ UNCHANGED <<storage, lock, buffer, cmd_args, consumed, inbox, sent, replies>>

\* await reader.read(1024) raises (the connection was reset): the exception is
\* logged and the writer is closed
ReadFails(c) ==
    /\ pc[c] = "read"
    /\ pc' = [pc EXCEPT ![c] = "closed"]
    /\ UNCHANGED <<storage, lock, buffer, cmd_args, consumed, inbox, sent, replies>>

\* reader.read returns b"" (the peer has closed, nothing is left to read):
\* the outer loop ends and the writer is closed
ReadEOF(c) ==
    /\ pc[c] = "read"
    /\ inbox[c] = <<>>
    /\ pc' = [pc EXCEPT ![c] = "closed"]
    /\ UNCHANGED <<storage, lock, buffer, cmd_args, consumed, inbox, sent, replies>>

\* await writer.drain() raises (the connection was lost): the exception is
\* logged and the writer is closed
DrainFails(c) ==
    /\ pc[c] = "drain"
    /\ pc' = [pc EXCEPT ![c] = "closed"]
    /\ UNCHANGED <<storage, lock, buffer, cmd_args, consumed, inbox, sent, replies>>

\* the ways the socket of one connection ends its handle task
SocketEnds(c) ==
    \/ ReadFails(c)
    \/ ReadEOF(c)
    \/ DrainFails(c)

\* the steps of one handle task
Handle(c) ==
    \/ ReadAll(c)
    \/ ParseStep(c)
    \/ Acquire(c)
    \/ Dispatch(c)
    \/ Drain(c)

(***************************************************************************)
(* Byte strings the clients use.                                           *)
(***************************************************************************)
KeyA == <<97>>
\* a key with a NUL byte and a byte >= 0x80
KeyB == <<0, 255>>
ValX == <<120>>
ValBin == <<255, 0, 13, 10>>
ValEmpty == <<>>
FOO == <<70, 79, 79>>
LowerGet == <<103, 101, 116>>

\* the client has had every frame it sent answered
Answered(c) == pc[c] = "read" /\ inbox[c] = <<>> /\ Len(replies[c]) = Len(sent[c])

NumSent == LET RECURSIVE Sum(_)
               Sum(c) == IF c = 0 THEN 0 ELSE Len(sent[c]) + Sum(c - 1)
           IN  Sum(NumConns)

(***************************************************************************)
(* Spec: several connections at once, whole frames per read.               *)
(***************************************************************************)
Menu ==
    {Frame(<<SET, KeyA, ValX>>), Frame(<<SET, KeyB, ValBin>>), Frame(<<DEL, KeyA, KeyB>>)}

\* a client sends its next frame once the last one has been answered
ClientSends(c) ==
    \E item \in Menu : NumSent < MaxFrames /\ Answered(c) /\ Send(c, item)

Next == \E c \in Conns : ClientSends(c) \/ Handle(c)

Spec == Init /\ [][Next]_vars


\* C2: at most one connection handler is between taking the global lock and
\* releasing it (the dispatch-and-table-access step), and the lock is held
\* exactly while one is; the whole of cmd_handler, a multi-key DEL included,
\* is one step taken inside that region.
C2_AtomicCommands ==
    /\ Cardinality({c \in Conns : pc[c] = "crit"}) <= 1
    /\ lock <=> (\E c \in Conns : pc[c] = "crit")

\* one handler holds the lock for a DEL of two keys while another waits for it
C2_Witness ==
    \E c, d \in Conns :
        /\ c # d
        /\ pc[c] = "crit"
        /\ Len(cmd_args[c]) = 3 /\ cmd_args[c][1] = DEL
        /\ pc[d] = "lock"
        /\ storage # <<>>

\* the frames sent so far, as <<connection, index>>
SentAt == UNION {{<<c, i>> : i \in 1 .. Len(sent[c])} : c \in Conns}

IsSetFrame(item) == item.wf /\ Len(item.args) = 3 /\ Upper(DecodeIgnore(item.args[1])) = SET

\* every frame sent so far is a SET, no two of them on the same key
DisjointSets ==
    /\ \A p \in SentAt : IsSetFrame(sent[p[1]][p[2]])
    /\ \A p, q \in SentAt : p # q => sent[p[1]][p[2]].args[2] # sent[q[1]][q[2]].args[2]

AllReplied == \A c \in Conns : Len(replies[c]) = Len(sent[c])

\* C3: when the frames sent on the connections are SET commands on pairwise
\* distinct keys and every one of them has been replied to, every key is in
\* the table with the value its SET carried.
C3_NoLostUpdates ==
    (DisjointSets /\ AllReplied) =>
        \A p \in SentAt :
            LET a == sent[p[1]][p[2]].args
            IN  \E i \in 1 .. Len(storage) : storage[i] = <<a[2], a[3]>>

\* two connections have each had a SET on a key of its own replied to
C3_Witness ==
    /\ DisjointSets
    /\ AllReplied
    /\ Cardinality({c \in Conns : Len(sent[c]) >= 1}) >= 2

(***************************************************************************)
(* SpecFail: several connections at once; a command may raise in           *)
(* cmd_handler and a socket may fail or be closed by its peer.  The handle *)
(* tasks are scheduled fairly: a task that can go on does go on.           *)
(***************************************************************************)
FailMenu ==
    {Frame(<<SET, KeyA, ValX>>), Frame(<<SET, KeyA>>), Frame(<<GET, KeyA>>)}

ClientFail(c) ==
    \E item \in FailMenu : NumSent < MaxFailFrames /\ Answered(c) /\ Send(c, item)

NextFail == \E c \in Conns : ClientFail(c) \/ Handle(c) \/ SocketEnds(c)

\* WF_vars(ParseStep(c)) written out: ParseStep(c) can be taken exactly when
\* pc[c] = "parse", and every step of it leaves pc[c] at another place
ParseStepFair(c) == []<>(pc[c] # "parse")

\* the event loop runs every task that is ready to go on
HandleFair(c) ==
    /\ WF_vars(ReadAll(c))
    /\ ParseStepFair(c)
    /\ WF_vars(Acquire(c))
    /\ WF_vars(Dispatch(c))
    /\ WF_vars(Drain(c))

SpecFail == Init /\ [][NextFail]_vars /\ \A c \in Conns : HandleFair(c)

\* connection c has a frame that was sent and is not replied to
Unreplied(c) == Len(replies[c]) < Len(sent[c])

\* C15: when a dispatch raises or a socket fails on a connection, that
\* connection's handler ends (it takes no further step and writes nothing
\* more) and the lock is held only by a handler that is inside the locked
\* region, never by one that has ended; every other connection that is open
\* goes on to have the frames it sent replied to.
C15_FailureContainment ==
    /\ [](lock <=> (\E c \in Conns : pc[c] = "crit"))
    /\ [][\A c \in Conns :
            pc[c] = "closed" =>
                /\ pc'[c] = "closed"
                /\ replies'[c] = replies[c]
                /\ buffer'[c] = buffer[c]]_vars
    /\ \A d \in Conns :
           (pc[d] # "closed" /\ Unreplied(d)) ~> (~Unreplied(d) \/ pc[d] = "closed")

\* one handler has ended on the exception of SET without a value, and after
\* that another is inside the locked region with its own command
C15_Witness ==
    \E c, d \in Conns :
        /\ c # d
        /\ pc[c] = "closed"
        /\ Unreplied(c)
        /\ sent[c][Len(sent[c])].args = <<SET, KeyA>>
        /\ cmd_args[c] = <<SET, KeyA>>
        /\ pc[d] = "crit"
        /\ lock

(***************************************************************************)
(* SpecCmd: one connection, whole frames per read, every kind of command.  *)
(***************************************************************************)
CmdMenu ==
    {Frame(<<SET, KeyA, ValX>>), Frame(<<SET, KeyA, ValEmpty>>),
     Frame(<<SET, KeyB, ValBin>>), Frame(<<GET, KeyA>>), Frame(<<LowerGet, KeyB>>),
     Frame(<<DEL, KeyA, KeyB>>), Frame(<<DEL, KeyB, KeyB>>),
     Frame(<<GET>>), Frame(<<SET, KeyA>>), Frame(<<STRLEN>>), Frame(<<FOO, KeyA>>)}

ClientCmd ==
    \E item \in CmdMenu : Len(sent[1]) < MaxCmds /\ Answered(1) /\ Send(1, item)

NextCmd == ClientCmd \/ Handle(1)

SpecCmd == Init /\ [][NextCmd]_vars

\* the command name as the handler reads it
CmdName(args) == Upper(DecodeIgnore(args[1]))

\* a frame the dispatcher has no command for, or one with too few arguments
Invalid(item) ==
    /\ item.wf
    /\ item.args # <<>>
    /\ \/ CmdName(item.args) \notin {GET, SET, DEL, EXISTS, STRLEN, SCAN, PING, HELLO, CLUSTER}
       \/ CmdName(item.args) = GET /\ Len(item.args) < 2
       \/ CmdName(item.args) = SET /\ Len(item.args) < 3
       \/ CmdName(item.args) = STRLEN /\ Len(item.args) < 2

\* an Error line: "-", a text without CR or LF, CR LF
IsErrorLine(reply) ==
    /\ Len(reply) >= 3
    /\ reply[1] = MINUS
    /\ SubSeq(reply, Len(reply) - 1, Len(reply)) = CRLF
    /\ \A i \in 1 .. Len(reply) - 2 : reply[i] \notin {CR, LF}

\* C4: for an unrecognized command and for an under-arity GET, SET or STRLEN
\* the dispatch does not raise (the connection is not closed on that frame)
\* and the reply written for the frame is an Error line.
C4_InvalidIsData ==
    \A i \in 1 .. Len(sent[1]) :
        Invalid(sent[1][i]) =>
            /\ ~(pc[1] = "closed" /\ Len(replies[1]) = i - 1)
            /\ i <= Len(replies[1]) => IsErrorLine(replies[1][i])

\* the i-th frame of connection 1 writes key k: a SET of k, or a DEL naming k
Writes(i, k) ==
    LET a == sent[1][i].args
    IN  \/ CmdName(a) = SET /\ Len(a) >= 3 /\ a[2] = k
        \/ CmdName(a) = DEL /\ \E j \in 2 .. Len(a) : a[j] = k

\* the last frame before the i-th that writes k, or 0
LastWrite(i, k) ==
    LET ws == {j \in 1 .. i - 1 : Writes(j, k)}
    IN  IF ws = {} THEN 0 ELSE CHOOSE j \in ws : \A h \in ws : h <= j

\* a client reads reply as the binary string v: $<len>\r\n, len bytes, \r\n
IsBulkOf(reply, v) ==
    LET e == FindCRLF(reply, 0)
        n == PyInt(Slice(reply, 1, e))
    IN  /\ reply # <<>> /\ reply[1] = DOLLAR
        /\ e > 0 /\ n.ok /\ n.val = Len(v)
        /\ Slice(reply, e + 2, e + 2 + Len(v)) = v
        /\ SliceFrom(reply, e + 2 + Len(v)) = CRLF

IsGetFrame(item) == item.wf /\ Len(item.args) >= 2 /\ CmdName(item.args) = GET

\* C5: the reply to GET k is the value of the last SET of k as a binary
\* string when no SET or DEL of k came after that SET, and Null when k was
\* never set or was deleted since.
C5_SetGetRoundTrip ==
    \A i \in 1 .. Len(replies[1]) :
        IsGetFrame(sent[1][i]) =>
            LET k == sent[1][i].args[2]
                w == LastWrite(i, k)
            IN  IF w # 0 /\ CmdName(sent[1][w].args) = SET
                THEN IsBulkOf(replies[1][i], sent[1][w].args[3])
                ELSE replies[1][i] = <<DOLLAR, MINUS, 49, CR, LF>>

\* GET of the binary key has been answered after a SET of a binary value on it
C5_Witness ==
    \E i \in 1 .. Len(replies[1]) :
        /\ IsGetFrame(sent[1][i])
        /\ sent[1][i].args[2] = KeyB
        /\ LastWrite(i, KeyB) # 0
        /\ sent[1][LastWrite(i, KeyB)].args = <<SET, KeyB, ValBin>>

\* the step in which connection c's handler runs cmd_handler on command name
DispatchOf(c, name) ==
    /\ pc[c] = "crit"
    /\ pc'[c] # "crit"
    /\ CmdName(cmd_args[c]) = name

\* an Integer reply
IntLine(n) == (<<COLON>> \o Dec(n)) \o CRLF

\* C6: DEL k1 .. kn replies the number of distinct named keys that were in
\* the table just before the call, whatever their values, and leaves none of
\* them in the table (so that the same DEL issued again replies 0).
C6_DelCount ==
    [][\A c \in Conns :
          DispatchOf(c, DEL) =>
              LET named == {cmd_args[c][j] : j \in 2 .. Len(cmd_args[c])}
              IN  /\ replies'[c] =
                        Append(replies[c],
                               IntLine(Cardinality({k \in named : HasKey(storage, k)})))
                  /\ \A k \in named : ~HasKey(storage', k)]_vars


(***************************************************************************)
(* SpecTable: one connection; the client writes the table with SET and     *)
(* DEL, one frame at a time, and then sends one more frame of any kind.    *)
(***************************************************************************)
StoreMenu ==
    {Frame(<<SET, KeyA, ValX>>), Frame(<<SET, KeyA, ValEmpty>>),
     Frame(<<SET, KeyB, ValBin>>), Frame(<<DEL, KeyA>>)}

LowerExists == <<101, 120, 105, 115, 116, 115>>
NotANumber == <<120>>

AskMenu ==
    {Frame(<<EXISTS, KeyA, KeyB>>), Frame(<<EXISTS, KeyA, KeyA>>),
     Frame(<<LowerExists, KeyB, KeyB, KeyA>>), Frame(<<EXISTS>>),
     Frame(<<STRLEN, KeyA>>), Frame(<<STRLEN, KeyB>>), Frame(<<STRLEN>>),
     Frame(<<GET, KeyA>>), Frame(<<GET>>),
     Frame(<<SCAN>>), Frame(<<SCAN, Dec(0), MATCH, <<97, STAR>>, COUNT, Dec(1)>>),
     Frame(<<SCAN, NotANumber>>), Frame(<<SCAN, Dec(0), MATCH, <<STAR>>, COUNT, NotANumber>>),
     Frame(<<PING>>), Frame(<<HELLO>>), Frame(<<CLUSTER>>), Frame(<<FOO, KeyA>>),
     Frame(<<SET, KeyB>>), Frame(<<SET>>)}

NoAskSent == \A i \in 1 .. Len(sent[1]) : sent[1][i] \in StoreMenu

TableStore ==
    \E item \in StoreMenu :
        /\ Answered(1) /\ NoAskSent
        /\ Len(sent[1]) < MaxStores
        /\ Send(1, item)

TableAsk ==
    \E item \in AskMenu : Answered(1) /\ NoAskSent /\ Send(1, item)

NextTable == TableStore \/ TableAsk \/ Handle(1)

SpecTable == Init /\ [][NextTable]_vars

\* the number of places of ks that hold a key of the table st
RECURSIVE CountPresent(_, _)
CountPresent(st, ks) ==
    IF ks = <<>> THEN 0
    ELSE (IF \E i \in 1 .. Len(st) : st[i][1] = Head(ks) THEN 1 ELSE 0)
         + CountPresent(st, Tail(ks))

\* C13: EXISTS k1 .. kn replies the Integer number of places i whose key ki
\* is in the table, a key named twice counting twice, and leaves the table as
\* it was.
C13_ExistsCount ==
    [][\A c \in Conns :
          DispatchOf(c, EXISTS) =>
              /\ replies'[c] =
                    Append(replies[c], IntLine(CountPresent(storage, Tail(cmd_args[c]))))
              /\ storage' = storage]_vars

\* EXISTS a a has been answered 2, the key a in the table and b not
C13_Witness ==
    /\ Keys(storage) = <<KeyA>>
    /\ Len(replies[1]) = Len(sent[1])
    /\ Len(sent[1]) >= 2
    /\ sent[1][Len(sent[1])].args = <<EXISTS, KeyA, KeyA>>
    /\ replies[1][Len(sent[1])] = IntLine(2)

IsStrlenFrame(item) == item.wf /\ Len(item.args) >= 2 /\ CmdName(item.args) = STRLEN

\* C14: the reply to STRLEN k is Integer 0 when k was never set or was
\* deleted since, and otherwise the number of bytes of the value of the last
\* SET of k.
C14_Strlen ==
    \A i \in 1 .. Len(replies[1]) :
        IsStrlenFrame(sent[1][i]) =>
            LET k == sent[1][i].args[2]
                w == LastWrite(i, k)
            IN  replies[1][i] =
                    IntLine(IF w # 0 /\ CmdName(sent[1][w].args) = SET
                            THEN Len(sent[1][w].args[3]) ELSE 0)

\* STRLEN of the key whose value has a byte that is no character has been
\* answered 4
C14_Witness ==
    \E i \in 1 .. Len(replies[1]) :
        /\ sent[1][i].args = <<STRLEN, KeyB>>
        /\ LastWrite(i, KeyB) # 0
        /\ replies[1][i] = IntLine(Len(ValBin))

\* the step in which connection c's handler runs cmd_handler
Dispatching(c) == pc[c] = "crit" /\ pc'[c] # "crit"

\* C19: a command other than SET and DEL leaves the table (keys, values,
\* order) as it was, and a SET of a key that is in the table leaves the keys
\* and their order as they were.
C19_ReadOnlyCommands ==
    [][\A c \in Conns :
          Dispatching(c) =>
              /\ CmdName(cmd_args[c]) \notin {SET, DEL} => storage' = storage
              /\ (CmdName(cmd_args[c]) = SET /\ Len(cmd_args[c]) >= 3
                                             /\ HasKey(storage, cmd_args[c][2])) =>
                     Keys(storage') = Keys(storage)]_vars

\* after SET a, SET b and SET a again the table is a, b, and a command that
\* only reads has been answered
C19_Witness ==
    /\ Len(sent[1]) = MaxStores + 1
    /\ Len(replies[1]) = Len(sent[1])
    /\ sent[1][MaxStores].args = <<SET, KeyA, ValEmpty>>
    /\ CmdName(sent[1][Len(sent[1])].args) \in {GET, EXISTS, STRLEN, SCAN, HELLO}
    /\ Keys(storage) = <<KeyA, KeyB>>
    /\ storage[1][2] = ValEmpty

\* C20: a dispatch that ends in an Error reply or in an exception leaves the
\* table as it was.
C20_NoEffectOnError ==
    [][\A c \in Conns :
          (/\ Dispatching(c)
           /\ \/ pc'[c] = "closed"
              \/ /\ Len(replies'[c]) = Len(replies[c]) + 1
                 /\ IsErrorLine(replies'[c][Len(replies'[c])])) =>
              storage' = storage]_vars

\* SET with no value has ended the connection, the table not empty
C20_Witness ==
    /\ pc[1] = "closed"
    /\ sent[1][Len(sent[1])].args = <<SET, KeyB>>
    /\ storage # <<>>
    /\ ~HasKey(storage, KeyB)

(***************************************************************************)
(* SpecScan: one connection; the client stores keys, one frame at a time,  *)
(* and then scans once.                                                    *)
(***************************************************************************)
ValV == <<118>>

\* the keys "a", "b", "c", ...
ScanKeys == {<<96 + i>> : i \in 1 .. MaxScanKeys}

IsScanFrame(item) == item.wf /\ CmdName(item.args) = SCAN

NoScanSent == \A i \in 1 .. Len(sent[1]) : ~IsScanFrame(sent[1][i])

\* the key after k, the first one after the last
NextKey(k) == <<96 + (((k[1] - 96) % MaxScanKeys) + 1)>>

\* the client stores the keys in their order, starting at any one of them and
\* going round
ScanStore ==
    \E k \in ScanKeys :
        /\ Answered(1) /\ NoScanSent
        /\ Len(sent[1]) < MaxScanKeys
        /\ (sent[1] # <<>> => k = NextKey(sent[1][Len(sent[1])].args[2]))
        /\ Send(1, Frame(<<SET, k, ValV>>))

\* the patterns "a", "b*" and "*c"
ScanPatterns == {<<97>>, <<98, STAR>>, <<STAR, 99>>}

\* SCAN c COUNT m, SCAN c MATCH * COUNT m, and SCAN c MATCH p COUNT m
ScanAsk ==
    \E c \in 0 .. MaxScanKeys, m \in 1 .. MaxScanCount :
        /\ Answered(1) /\ NoScanSent
        /\ \/ Send(1, Frame(<<SCAN, Dec(c), COUNT, Dec(m)>>))
           \/ Send(1, Frame(<<SCAN, Dec(c), MATCH, <<STAR>>, COUNT, Dec(m)>>))
           \/ \E p \in ScanPatterns : Send(1, Frame(<<SCAN, Dec(c), MATCH, p, COUNT, Dec(m)>>))

NextScan == ScanStore \/ ScanAsk \/ Handle(1)

SpecScan == Init /\ [][NextScan]_vars

\* the keys stored by the frames before the i-th, in the order they were sent
StoredBefore(i) == [j \in 1 .. i - 1 |-> sent[1][j].args[2]]

\* the reply a client reads as <<cursor, keys>>: an array of the cursor in
\* decimal and the array of the keys
ScanReply(cursor, keys) ==
    (<<STAR, 50, CR, LF>> \o ((<<DOLLAR>> \o Dec(Len(Dec(cursor))) \o CRLF) \o Dec(cursor) \o CRLF))
    \o Encode(keys)

\* the page of a table of keys that starts at offset c and has m places
PageReply(keys, c, m) ==
    ScanReply(IF c + m >= Len(keys) THEN 0 ELSE c + m,
              SubSeq(keys, c + 1, Min(c + m, Len(keys))))

\* C7: SCAN c COUNT m, COUNT directly after the cursor, replies the keys at
\* offsets c .. c+m-1 of the insertion order with cursor c+m, or cursor 0
\* when c+m >= n (on a, b, c, d, e: SCAN 0 COUNT 2 replies 2 and a, b).
C7_ScanCountPaging ==
    \A i \in 1 .. Len(replies[1]) :
        LET a == sent[1][i].args
        IN  (IsScanFrame(sent[1][i]) /\ Len(a) = 4 /\ a[3] = COUNT) =>
                replies[1][i] = PageReply(StoredBefore(i), PyInt(a[2]).val, PyInt(a[4]).val)

\* The same paging does hold when MATCH * stands between the cursor and
\* COUNT, the places where cmd_handler looks for them.
ScanMatchCountPaging ==
    \A i \in 1 .. Len(replies[1]) :
        LET a == sent[1][i].args
        IN  (IsScanFrame(sent[1][i]) /\ Len(a) = 6 /\ a[3] = MATCH /\ a[4] = <<STAR>>
                 /\ a[5] = COUNT) =>
                replies[1][i] = PageReply(StoredBefore(i), PyInt(a[2]).val, PyInt(a[6]).val)

\* on the keys stored as e, a, b, c, d the call SCAN 2 MATCH * COUNT 2 has
\* been answered with cursor 4 and the keys b, c
ScanMatchCountPaged ==
    /\ Keys(storage) = <<<<101>>, <<97>>, <<98>>, <<99>>, <<100>>>>
    /\ Len(replies[1]) = 6
    /\ sent[1][6].args = <<SCAN, <<50>>, MATCH, <<STAR>>, COUNT, <<50>>>>
    /\ replies[1][6] = ScanReply(4, <<<<98>>, <<99>>>>)

\* a SCAN frame in the full layout: SCAN cursor MATCH pattern COUNT count
IsFullScan(item) ==
    /\ IsScanFrame(item)
    /\ Len(item.args) = 6
    /\ item.args[3] = MATCH
    /\ item.args[5] = COUNT

\* the cursor a client reads in a SCAN reply: the first element of the array
ReplyCursor(reply) ==
    LET e == FindCRLF(reply, 4)
    IN  Slice(reply, e + 2, FindCRLF(reply, e + 2))

\* the keys a client reads in a SCAN reply: the second element of the array
ReplyKeys(reply) ==
    LET e == FindCRLF(reply, 4)
    IN  Parse(SliceFrom(reply, FindCRLF(reply, e + 2) + 2)).args

\* the cursor after the window of m places at offset c of a table of n keys
CursorAfterWindow(n, c, m) ==
    LET w == Min(c + m, n) - Min(c, n)
    IN  IF c + w >= n THEN 0 ELSE c + w

\* C11: the cursor replied by SCAN c MATCH p COUNT m is 0 when c plus the
\* length of the unfiltered window [c, c+m) reaches the size of the table and
\* c plus that length otherwise, however many keys of the window p lets
\* through.
C11_CursorBeforeFilter ==
    \A i \in 1 .. Len(replies[1]) :
        IsFullScan(sent[1][i]) =>
            LET a == sent[1][i].args
            IN  ReplyCursor(replies[1][i]) =
                    Dec(CursorAfterWindow(i - 1, PyInt(a[2]).val, PyInt(a[6]).val))

(***************************************************************************)
(* SpecIter: one connection; the client stores keys and then iterates:     *)
(* it calls SCAN in the full layout and calls it again with each cursor    *)
(* replied, the pattern and the count kept, until the cursor replied is 0. *)
(***************************************************************************)
\* the keys "a", "ab", "b", "bb", "c", ...
IterKey(i) ==
    IF i % 2 = 1 THEN <<96 + ((i + 1) \div 2)>> ELSE <<96 + (i \div 2), 98>>

\* the patterns "a", "b", "a*", "*b" and "*"
IterPatterns == {<<97>>, <<98>>, <<97, STAR>>, <<STAR, 98>>, <<STAR>>}

\* the SCAN frames sent so far, by their index
IterCalls == {i \in 1 .. Len(sent[1]) : IsScanFrame(sent[1][i])}

IterStore ==
    /\ Answered(1) /\ NoScanSent
    /\ Len(sent[1]) < MaxIterKeys
    /\ Send(1, Frame(<<SET, IterKey(Len(sent[1]) + 1), ValV>>))

\* the first call of the iteration
IterAsk ==
    \E c \in 0 .. MaxIterKeys, m \in 1 .. MaxScanCount, p \in IterPatterns :
        /\ Answered(1) /\ NoScanSent
        /\ Send(1, Frame(<<SCAN, Dec(c), MATCH, p, COUNT, Dec(m)>>))

\* the next call: the cursor is the one the last reply carried
IterNext ==
    /\ Answered(1) /\ ~NoScanSent
    /\ Cardinality(IterCalls) < MaxIterCalls
    /\ LET cur == ReplyCursor(replies[1][Len(replies[1])])
       IN  /\ cur # Dec(0)
           /\ Send(1, Frame([sent[1][Len(sent[1])].args EXCEPT ![2] = cur]))

NextIter == IterStore \/ IterAsk \/ IterNext \/ Handle(1)

SpecIter == Init /\ [][NextIter]_vars

\* s matches the glob p as a whole: "*" stands for any substring, every
\* other byte for itself
RECURSIVE GlobMatch(_, _)
GlobMatch(p, s) ==
    IF p = <<>> THEN s = <<>>
    ELSE IF p[1] = STAR
         THEN \E i \in 0 .. Len(s) : GlobMatch(Tail(p), SubSeq(s, i + 1, Len(s)))
         ELSE s # <<>> /\ s[1] = p[1] /\ GlobMatch(Tail(p), Tail(s))

\* C12: the keys replied by SCAN c MATCH p COUNT m are the keys of the window
\* [c, c+m) of the enumeration order that match the glob p as a whole, in that
\* order, and no others.
C12_MatchIsGlobOverWindow ==
    \A i \in 1 .. Len(replies[1]) :
        IsFullScan(sent[1][i]) =>
            LET a == sent[1][i].args
                c == PyInt(a[2]).val
                window == Slice(Keys(storage), c, c + PyInt(a[6]).val)
            IN  ReplyKeys(replies[1][i]) = SelectSeq(window, LAMBDA k : GlobMatch(a[4], k))

\* the keys replied by the calls i .. Len(replies[1]), one after the other
RECURSIVE KeysReplied(_)
KeysReplied(i) ==
    IF i > Len(replies[1]) THEN <<>>
    ELSE (IF IsScanFrame(sent[1][i]) THEN ReplyKeys(replies[1][i]) ELSE <<>>)
         \o KeysReplied(i + 1)

\* C17: an iteration that starts at cursor 0 on a table of n keys is replied
\* cursor 0 within n calls (one call when n = 0), and when it is replied
\* cursor 0 the keys replied over its calls are the keys of the table that
\* the pattern lets through, each one once.
C17_ScanIteration ==
    (IterCalls # {} /\ sent[1][Len(storage) + 1].args[2] = Dec(0)
                    /\ Len(replies[1]) = Len(sent[1])) =>
        LET done == ReplyCursor(replies[1][Len(replies[1])]) = Dec(0)
            p == sent[1][Len(sent[1])].args[4]
        IN  /\ Cardinality(IterCalls) >= Max(Len(storage), 1) => done
            /\ done => KeysReplied(1) = ScanFilter(Keys(storage), p)

(***************************************************************************)
(* SpecFrag: one connection whose reads return any part of what has        *)
(* arrived; the client sends frames and bytes that are no frame.           *)
(***************************************************************************)
Val10 == <<48, 49, 50, 51, 52, 53, 54, 55, 56, 57>>
KeyK == <<107>>

FragFrames ==
    {Frame(<<>>), Frame(<<PING>>), Frame(<<SET, KeyA, ValBin>>), Frame(<<FOO, Val10>>),
     Frame(<<DEL, KeyK, KeyK, KeyK, KeyK, KeyK, KeyK, KeyK, KeyK, KeyK>>)}

\* "X", "*x\r\n" and "*1\r\n$x\r\n"
FragGarbage ==
    {Garbage(<<88>>), Garbage(<<STAR, 120, CR, LF>>),
     Garbage(<<STAR, 49, CR, LF, DOLLAR, 120, CR, LF>>)}

ClientFrag ==
    \E item \in FragFrames \cup FragGarbage :
        Len(sent[1]) < MaxFragFrames /\ Send(1, item)

NextFrag ==
    \/ ClientFrag
    \/ ReadSome(1)
    \/ ParseStep(1)
    \/ Acquire(1)
    \/ Dispatch(1)
    \/ Drain(1)

SpecFrag == Init /\ [][NextFrag]_vars

IsPrefix(p, s) == Len(p) <= Len(s) /\ SubSeq(s, 1, Len(p)) = p

\* all the bytes the client wrote on connection c
RECURSIVE Concat(_)
Concat(items) == IF items = <<>> THEN <<>> ELSE Head(items).raw \o Concat(Tail(items))

\* the number of bytes reader.read has returned on connection c
Received(c) == Len(Concat(sent[c])) - Len(inbox[c])

\* C1: while a part of the one frame sent has not arrived, nothing is decoded
\* or consumed (the buffer is what has arrived, no reply is written); once the
\* handler has worked through all of it, the arguments decoded and the bytes
\* consumed are those of parse on the whole frame, and one reply is written.
C1_FragmentedReads ==
    \A c \in Conns :
        (Len(sent[c]) = 1 /\ sent[c][1].wf) =>
            LET raw == sent[c][1].raw
            IN  /\ Received(c) < Len(raw) =>
                    /\ buffer[c] = SubSeq(raw, 1, Received(c))
                    /\ replies[c] = <<>>
                    /\ pc[c] \in {"read", "parse"}
                /\ (Received(c) = Len(raw) /\ pc[c] = "read") =>
                    /\ cmd_args[c] = Parse(raw).args
                    /\ consumed[c] = Parse(raw).consumed
                    /\ buffer[c] = <<>>
                    /\ Len(replies[c]) = 1

\* C8: as long as only a proper prefix of the first frame has arrived, every
\* call of parse has returned no arguments and 0 bytes consumed.
C8_IncompleteConsumesNothing ==
    \A c \in Conns :
        (Len(sent[c]) >= 1 /\ sent[c][1].wf /\ Received(c) < Len(sent[c][1].raw)) =>
            cmd_args[c] = <<>> /\ consumed[c] = 0

AllDigits(d) == d # <<>> /\ \A i \in 1 .. Len(d) : IsDigit(d[i])

\* input that no further bytes can make a frame: a first byte that is not the
\* array marker, a complete array count that is not decimal, or a complete
\* length of the first element that is not decimal
Malformed(b) ==
    /\ b # <<>>
    /\ \/ b[1] # STAR
       \/ LET e == FindCRLF(b, 0)
          IN  /\ e >= 0
              /\ \/ ~AllDigits(Slice(b, 1, e))
                 \/ LET f == FindCRLF(b, e + 2)
                    IN  /\ f >= 0
                        /\ b[e + 3] = DOLLAR
                        /\ ~AllDigits(Slice(b, e + 3, f))

\* C9: the handler does not go back to waiting for input with malformed
\* bytes kept at the head of its buffer, as it does with an incomplete frame.
C9_MalformedNotBuffered ==
    \A c \in Conns : (pc[c] = "read" /\ consumed[c] = 0) => ~Malformed(buffer[c])

\* C10: when the buffer handed to parse is a complete frame F followed by any
\* bytes T, parse returns F's arguments and the byte length of F, and the
\* buffer the handler keeps is T.
C10_ExactConsumption ==
    [][\A c \in Conns :
          (pc[c] = "parse" /\ pc'[c] # "parse") =>
              \A item \in FragFrames :
                  IsPrefix(item.raw, buffer[c]) =>
                      /\ cmd_args'[c] = item.args
                      /\ consumed'[c] = Len(item.raw)
                      /\ buffer'[c] = SubSeq(buffer[c], Len(item.raw) + 1, Len(buffer[c]))]_vars

\* parse has taken SET with its binary value off a buffer that went on with
\* the beginning of another frame
C10_Witness ==
    /\ pc[1] = "lock"
    /\ cmd_args[1] = <<SET, KeyA, ValBin>>
    /\ consumed[1] = Len(Encode(<<SET, KeyA, ValBin>>))
    /\ buffer[1] # <<>>
    /\ buffer[1][1] = STAR
    /\ inbox[1] # <<>>


\* what the handler replies to the frames items one after the other, the
\* table being st before the first of them
RECURSIVE Replay(_, _)
Replay(st, items) ==
    IF items = <<>> THEN <<>>
    ELSE LET r == CmdHandler(st, CmdName(Head(items).args), Head(items).args)
         IN  <<r.response>> \o Replay(r.storage, Tail(items))

\* C18: when all that a connection was sent are well-formed frames f1 .. fn
\* (of one argument or more), the replies written so far are the results of
\* dispatching f1, f2, ... in that order, each on the table the ones before
\* it left; whenever the handler waits for input the buffer holds the bytes
\* that have arrived after the frames replied to; and once all the bytes have
\* arrived and the handler waits again, there are n replies.
C18_OrderedPipelining ==
    \A c \in Conns :
        (\A i \in 1 .. Len(sent[c]) : sent[c][i].wf /\ sent[c][i].args # <<>>) =>
            LET n == Len(replies[c])
                all == Replay(<<>>, sent[c])
                done == IF n <= Len(sent[c]) THEN Len(Concat(SubSeq(sent[c], 1, n))) ELSE 0
            IN  /\ n <= Len(sent[c])
                /\ replies[c] = SubSeq(all, 1, n)
                /\ pc[c] = "read" =>
                       buffer[c] = SubSeq(Concat(sent[c]), done + 1, Received(c))
                /\ (pc[c] = "read" /\ inbox[c] = <<>>) => n = Len(sent[c])

(***************************************************************************)
(* SpecMain: main, the listener and the shutdown on SIGINT.  pc[Main] is   *)
(* the place of the main task:                                             *)
(*   "serving"       at await stop.wait(), SIGINT not delivered             *)
(*   "signalled"     SIGINT delivered, the callback shutdown is scheduled   *)
(*   "stopping"      stop is set, main is ready to go on                    *)
(*   "wait_closed"   server.close() done, at await server.wait_closed() on  *)
(*                   a runtime where it returns once close() has completed  *)
(*                   (asyncio before Python 3.12)                           *)
(*   "wait_clients"  the same place on a runtime where it returns once the  *)
(*                   server is closed and no connection is active (asyncio  *)
(*                   of Python 3.12 and later)                              *)
(*   "done"          main has returned; asyncio.run cancels the tasks left  *)
(* A connection is "new" before the client connects and "pending" until    *)
(* the listener accepts it and start_server spawns its handle task.        *)
(***************************************************************************)
Main == 0

\* listening from asyncio.start_server until server.close()
Listening == pc[Main] \in {"serving", "signalled", "stopping"}

\* connections whose handle task has been spawned and has not ended
Active == {c \in Conns : pc[c] \in {"read", "parse", "lock", "crit", "drain"}}

InitMain ==
    /\ storage = <<>>
    /\ lock = FALSE
    /\ pc = [t \in {Main} \cup Conns |-> IF t = Main THEN "serving" ELSE "new"]
    /\ buffer = [c \in Conns |-> <<>>]
    /\ cmd_args = [c \in Conns |-> <<>>]
    /\ consumed = [c \in Conns |-> 0]
    /\ inbox = [c \in Conns |-> <<>>]
    /\ sent = [c \in Conns |-> <<>>]
    /\ replies = [c \in Conns |-> <<>>]

\* the step of the main task or of the event loop that takes pc[Main] to place
MainGoes(place) ==
    /\ pc' = [pc EXCEPT ![Main] = place]
    /\ UNCHANGED <<storage, lock, buffer, cmd_args, consumed, inbox, sent, replies>>

\* SIGINT is delivered: the event loop schedules the callback shutdown
Signal == pc[Main] = "serving" /\ MainGoes("signalled")

\* shutdown(): stop.set()
Shutdown == pc[Main] = "signalled" /\ MainGoes("stopping")

\* main goes on from stop.wait(): server.close(), then await server.wait_closed()
ServerClose ==
    /\ pc[Main] = "stopping"
    /\ MainGoes("wait_closed") \/ MainGoes("wait_clients")

\* server.wait_closed() returns, the server's context is left, main returns
MainReturns ==
    /\ \/ pc[Main] = "wait_closed"
       \/ pc[Main] = "wait_clients" /\ Active = {}
    /\ MainGoes("done")

\* a client connects while the socket listens
Connect(c) ==
    /\ pc[c] = "new"
    /\ Listening
    /\ pc' = [pc EXCEPT ![c] = "pending"]
    /\ UNCHANGED <<storage, lock, buffer, cmd_args, consumed, inbox, sent, replies>>

\* the listener accepts the connection and spawns handle(reader, writer)
Accept(c) ==
    /\ pc[c] = "pending"
    /\ Listening
    /\ pc' = [pc EXCEPT ![c] = "read"]
    /\ UNCHANGED <<storage, lock, buffer, cmd_args, consumed, inbox, sent, replies>>

\* asyncio.run, main returned, cancels a task at its await: CancelledError is
\* no Exception, so only the finally clause runs and the writer is closed
Cancel(c) ==
    /\ pc[Main] = "done"
    /\ pc[c] \in {"read", "lock", "drain"}
    /\ pc' = [pc EXCEPT ![c] = "closed"]
    /\ UNCHANGED <<storage, lock, buffer, cmd_args, consumed, inbox, sent, replies>>

\* the steps of a handle task: once main has returned, only up to its next await
Running(c) ==
    IF pc[Main] = "done" THEN ParseStep(c) \/ Dispatch(c)
    ELSE Handle(c) \/ ReadEOF(c)

NextMain ==
    \/ Signal
    \/ Shutdown
    \/ ServerClose
    \/ MainReturns
    \/ \E c \in Conns : Connect(c) \/ Accept(c) \/ ClientFail(c) \/ Running(c) \/ Cancel(c)

\* the event loop runs the callback, the main task and the handle tasks when
\* they are ready; clients and the signal come when they will
SpecMain ==
    /\ InitMain
    /\ [][NextMain]_vars
    /\ WF_vars(Shutdown)
    /\ WF_vars(ServerClose)
    /\ WF_vars(MainReturns)
    /\ \A c \in Conns : HandleFair(c) /\ WF_vars(Cancel(c))

\* a step of the shutdown path: one of the main task from the signal on, or
\* the cancelling of a task
ShutdownStep ==
    \/ pc'[Main] # pc[Main]
    \/ \E c \in Conns : pc[Main] = "done" /\ pc[c] # "closed" /\ pc'[c] = "closed"

\* C16: once SIGINT has been delivered the listener gets closed, and from
\* then on no handler is spawned; main eventually returns; and no step of
\* the shutdown path changes the table.
C16_GracefulShutdown ==
    /\ (pc[Main] = "signalled") ~> ~Listening
    /\ [][\A c \in Conns : (pc[c] \in {"new", "pending"} /\ pc'[c] = "read") => Listening]_vars
    /\ (pc[Main] = "signalled") ~> (pc[Main] = "done")
    /\ [][ShutdownStep => storage' = storage]_vars

=============================================================================
